---- MODULE Spec2Model ----
(***************************************************************************)
(* A model of ai_reporter.py: the report catalog cache held in a SQLite    *)
(* table, the substring search over it, the word-overlap matcher, the      *)
(* trigger based parameter extraction and the report download, driven by   *)
(* the script's main block.                                                *)
(*                                                                         *)
(* A Python str is a sequence of one-character strings, so that lower(),   *)
(* split(), the "in" operator, slicing, LIKE and strftime are computed     *)
(* character by character.                                                 *)
(***************************************************************************)
EXTENDS Naturals, Sequences, FiniteSets, TLC

VARIABLES pc, args, db, search, last, outcomes, runs, writes, now, ticks, nreq

vars == <<pc, args, db, search, last, outcomes, runs, writes, now, ticks, nreq>>

---------------------------------------------------------------------------
(* Bounds of the model *)

\* length of the result list the upstream search answers with
MaxResults == 2
\* requests typed in one interactive session
MaxRequests == 2
\* seconds the wall clock advances during one run
MaxTicks == 1

---------------------------------------------------------------------------
(* Characters and Python's str operations *)

UpperChars == <<"A", "B", "C", "D", "E", "F", "G", "H", "I", "J", "K", "L", "M", "N", "O", "P", "Q", "R", "S", "T", "U", "V", "W", "X", "Y", "Z">>

LowerChars == <<"a", "b", "c", "d", "e", "f", "g", "h", "i", "j", "k", "l", "m", "n", "o", "p", "q", "r", "s", "t", "u", "v", "w", "x", "y", "z">>

DigitChars == <<"0", "1", "2", "3", "4", "5", "6", "7", "8", "9">>

IsDigit(c) == c \in {"0", "1", "2", "3", "4", "5", "6", "7", "8", "9"}

\* the lower-case letter of each upper-case letter
UpperToLower ==
  [c \in {UpperChars[i] : i \in 1..26} |->
     LowerChars[CHOOSE i \in 1..26 : UpperChars[i] = c]]

\* one character folded to lower case (ASCII, as str.lower and LIKE both do)
LowerChar(c) == IF c \in DOMAIN UpperToLower THEN UpperToLower[c] ELSE c

\* str.lower()
lower(s) == [i \in 1..Len(s) |-> LowerChar(s[i])]

\* Python's "sub in s"
Contains(s, sub) ==
  \E i \in 0..Len(s) :
    /\ i + Len(sub) <= Len(s)
    /\ SubSeq(s, i + 1, i + Len(sub)) = sub

\* s[:n]
Prefix(s, n) == SubSeq(s, 1, IF Len(s) < n THEN Len(s) ELSE n)

\* the ASCII whitespace str.split() separates on
IsSpace(c) == c \in {" ", "\t", "\n", "\r"}

RECURSIVE SplitFrom(_, _, _)
\* str.split(): the maximal runs of non-whitespace characters, in order
SplitFrom(s, i, word) ==
  IF i > Len(s)
  THEN IF word = <<>> THEN <<>> ELSE <<word>>
  ELSE IF IsSpace(s[i])
       THEN IF word = <<>>
            THEN SplitFrom(s, i + 1, <<>>)
            ELSE <<word>> \o SplitFrom(s, i + 1, <<>>)
       ELSE SplitFrom(s, i + 1, Append(word, s[i]))

split(s) == SplitFrom(s, 1, <<>>)

RECURSIVE LikeFrom(_, _, _, _)
\* whether pattern from position i on matches text from position j on
LikeFrom(pattern, i, text, j) ==
  IF i > Len(pattern)
  THEN j > Len(text)
  ELSE IF pattern[i] = "%"
       THEN \/ LikeFrom(pattern, i + 1, text, j)
            \/ j <= Len(text) /\ LikeFrom(pattern, i, text, j + 1)
       ELSE /\ j <= Len(text)
            /\ \/ pattern[i] = "_"
               \/ LowerChar(pattern[i]) = LowerChar(text[j])
            /\ LikeFrom(pattern, i + 1, text, j + 1)

\* SQLite's LIKE with no ESCAPE clause: % is any run of characters, _ is any
\* one character, every other character compares case-insensitively
LikeMatch(pattern, text) == LikeFrom(pattern, 1, text, 1)

\* the LIKE argument f"%{query}%"
LikePattern(query) == <<"%">> \o query \o <<"%">>

\* json.dumps([])
JsonEmptyList == <<"[", "]">>

IsJsonNumber(s) ==
  /\ s # <<>>
  /\ \A i \in 1..Len(s) : IsDigit(s[i])
  /\ Len(s) > 1 => s[1] # "0"

\* whether json.loads(s) returns (it raises JSONDecodeError otherwise); the
\* column texts of the model are "[]", digit strings, dates and ""
JsonLoadsOk(s) == s = JsonEmptyList \/ IsJsonNumber(s)

\* json.loads(s) where it returns: the empty list, or the number shown by its digits
JsonLoads(s) == IF s = JsonEmptyList THEN <<>> ELSE s

---------------------------------------------------------------------------
(* The wall clock and strftime *)

IsLeap(y) == (y % 4 = 0 /\ y % 100 # 0) \/ y % 400 = 0

DaysInMonth(y, m) ==
  IF m = 2 THEN (IF IsLeap(y) THEN 29 ELSE 28)
  ELSE IF m \in {4, 6, 9, 11} THEN 30 ELSE 31

\* the datetime one second after t
NextSecond(t) ==
  IF t.S < 59 THEN [t EXCEPT !.S = t.S + 1]
  ELSE IF t.M < 59 THEN [t EXCEPT !.S = 0, !.M = t.M + 1]
  ELSE IF t.H < 23 THEN [t EXCEPT !.S = 0, !.M = 0, !.H = t.H + 1]
  ELSE IF t.d < DaysInMonth(t.Y, t.m)
       THEN [t EXCEPT !.S = 0, !.M = 0, !.H = 0, !.d = t.d + 1]
  ELSE IF t.m < 12
       THEN [t EXCEPT !.S = 0, !.M = 0, !.H = 0, !.d = 1, !.m = t.m + 1]
  ELSE [Y |-> t.Y + 1, m |-> 1, d |-> 1, H |-> 0, M |-> 0, S |-> 0]

\* the decimal digits of n, zero-padded to width w
Pad(n, w) == [i \in 1..w |-> DigitChars[((n \div (10 ^ (w - i))) % 10) + 1]]

\* the format '%Y%m%d%H%M%S', which the source does not use
strftime_nosep(t) ==
  Pad(t.Y, 4) \o Pad(t.m, 2) \o Pad(t.d, 2) \o Pad(t.H, 2) \o Pad(t.M, 2) \o Pad(t.S, 2)

\* datetime.strftime('%Y%m%d_%H%M%S')
strftime(t) ==
  Pad(t.Y, 4) \o Pad(t.m, 2) \o Pad(t.d, 2) \o <<"_">>
    \o Pad(t.H, 2) \o Pad(t.M, 2) \o Pad(t.S, 2)

---------------------------------------------------------------------------
(* String literals of the source *)

\* 'quit', the sentinel of the interactive loop
QuitWord == <<"q", "u", "i", "t">>

\* "daily sales", the request of a run with no --request
DefaultRequest == <<"d", "a", "i", "l", "y", " ", "s", "a", "l", "e", "s">>

TriggerDec == <<"d", "e", "c">>

Trigger2024 == <<"2", "0", "2", "4">>

TriggerQ4 == <<"q", "4">>

DateValue == <<"2", "0", "2", "4", "-", "1", "2">>

QuarterValue == <<"Q", "4">>

FilePrefix == <<"r", "e", "p", "o", "r", "t", "_">>

TmpDir == <<"/", "t", "m", "p", "/">>

\* fmt: str = "pdf"
DefaultFormat == <<"p", "d", "f">>

---------------------------------------------------------------------------
(* The inputs: what the upstream search may list, what an earlier run may   *)
(* have left in the cache file, what the user may ask                      *)

ItemDailySales ==
  [id |-> <<"r", "1">>,
   name |-> <<"D", "a", "i", "l", "y", " ", "S", "a", "l", "e", "s">>,
   path |-> <<"/", "r", "1">>,
   description |-> <<"s", "a", "l", "e", "s", " ", "b", "y", " ", "r", "e", "g", "i", "o", "n">>,
   lastModified |-> <<"1", "7", "0", "0", "0", "0", "0", "0", "0", "0">>]

ItemMonthlySummary ==
  [id |-> <<"r", "2">>,
   name |-> <<"M", "o", "n", "t", "h", "l", "y", " ", "S", "u", "m", "m", "a", "r", "y">>,
   path |-> <<"/", "s", "a", "l", "e", "s", "/", "r", "2">>,
   description |-> <<"s", "u", "m", "m", "a", "r", "y", " ", "t", "o", "t", "a", "l", "s">>,
   lastModified |-> <<"1", "7", "0", "0", "0", "0", "0", "0", "0", "1">>]

ItemLongId ==
  [id |-> <<"a", "b", "c", "d", "e", "f", "1", "2", "3", "4", "5", "6", "7", "8", "9", "0">>,
   name |-> <<"Q", "4", " ", "D", "e", "c", " ", "2", "0", "2", "4", " ", "S", "a", "l", "e", "s">>,
   path |-> <<"/", "a", "b">>,
   lastModified |-> <<"1", "7", "0", "0", "0", "0", "0", "0", "0", "2">>]

\* what an earlier run cached under the identifier of ItemDailySales, with
\* neither description nor lastModified
ItemOldSales ==
  [id |-> <<"r", "1">>,
   name |-> <<"O", "l", "d", " ", "S", "a", "l", "e", "s">>,
   path |-> <<"/", "r", "0">>]

CatalogItems == {ItemDailySales, ItemMonthlySummary, ItemLongId}

RECURSIVE SeqsUpTo(_, _)
\* the sequences over S of length at most n
SeqsUpTo(S, n) ==
  IF n = 0 THEN {<<>>}
  ELSE LET shorter == SeqsUpTo(S, n - 1)
       IN  shorter \cup {Append(q, x) : q \in shorter, x \in S}

\* what the search call may end with: a body with a 'results' list, an error
\* status whose JSON body has no 'results', an error whose body is not JSON,
\* or no answer at all
SearchResponses ==
  {[kind |-> "results", results |-> r] : r \in SeqsUpTo(CatalogItems, MaxResults)}
    \cup {[kind |-> k, results |-> <<>>] :
            k \in {"error_json", "error_not_json", "connection_error"}}

\* the result lists an earlier run may have cached
EarlierResults == {<<>>, <<ItemOldSales>>}

RequestPool ==
  { <<"d", "a", "i", "l", "y", " ", "s", "a", "l", "e", "s", " ", "r", "e", "p", "o", "r", "t">>,
    <<"s", "a", "l", "e", "s">>,
    <<"Q", "4", " ", "D", "e", "c">>,
    <<"2", "0", "2", "4">>,
    <<>>,
    <<"_">>,
    <<"Q", "u", "i", "t">> }

NoRequest == [given |-> FALSE, text |-> <<>>]

\* the command lines: --interactive, or a one-shot run with or without --request
ArgsPool ==
  {[interactive |-> TRUE, request |-> NoRequest]}
    \cup {[interactive |-> FALSE, request |-> NoRequest]}
    \cup {[interactive |-> FALSE, request |-> [given |-> TRUE, text |-> r]] : r \in RequestPool}

\* the start of the run on the wall clock
StartTime == [Y |-> 2024, m |-> 12, d |-> 31, H |-> 23, M |-> 59, S |-> 59]

---------------------------------------------------------------------------
(* AIReporter: the cache table *)

\* item.get(key, '')
ItemGet(item, key) == IF key \in DOMAIN item THEN item[key] ELSE <<>>

\* the row the INSERT statement binds for one item of the result list
RowOf(item) ==
  [store_id |-> item.id,
   name |-> item.name,
   path |-> item.path,
   description |-> ItemGet(item, "description"),
   parameters |-> JsonEmptyList,
   last_modified |-> ItemGet(item, "lastModified")]

\* INSERT OR REPLACE on the primary key store_id: the row with that key goes,
\* the new row gets the highest rowid
InsertOrReplace(rows, row) ==
  SelectSeq(rows, LAMBDA r : r.store_id # row.store_id) \o <<row>>

RECURSIVE InsertAll(_, _)
InsertAll(rows, results) ==
  IF results = <<>> THEN rows
  ELSE InsertAll(InsertOrReplace(rows, RowOf(Head(results))), Tail(results))

\* the table after _build_reports_cache: CREATE TABLE IF NOT EXISTS keeps the
\* rows of the file, then one INSERT OR REPLACE per item
build_reports_cache(rows, results) == InsertAll(rows, results)

\* the WHERE clause of search_reports
RowMatches(row, query) ==
  \/ LikeMatch(LikePattern(query), row.name)
  \/ LikeMatch(LikePattern(query), row.description)
  \/ LikeMatch(LikePattern(query), row.path)

\* cursor.fetchall(): the matching rows in rowid order
FetchAll(rows, query) == SelectSeq(rows, LAMBDA r : RowMatches(r, query))

\* CognosReport(*row[:-1], json.loads(row[-1])): the first five columns fill
\* the first five fields, and the last column is parsed as JSON
ReportOfRow(row) ==
  [store_id |-> row.store_id,
   name |-> row.name,
   path |-> row.path,
   description |-> row.description,
   parameters |-> row.parameters,
   last_modified |-> JsonLoads(row.last_modified)]

\* a search that deletes the rows it fetched
after_search_deleting(rows, query) ==
  SelectSeq(rows, LAMBDA r : ~RowMatches(r, query))

\* the table after search_reports: the connection runs one SELECT and is closed
after_search(rows, query) == rows

\* search_reports: raises when json.loads raises on a fetched row
search_reports(rows, query) ==
  LET fetched == FetchAll(rows, query)
  IN  IF \E i \in 1..Len(fetched) : ~JsonLoadsOk(fetched[i].last_modified)
      THEN [raised |-> TRUE, reports |-> <<>>]
      ELSE [raised |-> FALSE,
            reports |-> [i \in 1..Len(fetched) |-> ReportOfRow(fetched[i])]]

\* f"report_{store_id[:8]}_{datetime.now().strftime(...)}.{fmt}" under /tmp/
report_filepath(store_id, fmt, t) ==
  TmpDir \o FilePrefix \o Prefix(store_id, 8) \o <<"_">> \o strftime(t) \o <<".">> \o fmt

---------------------------------------------------------------------------
(* AIReportAgent *)

RECURSIVE CountWords(_, _)
CountWords(words, text) ==
  IF words = <<>> THEN 0
  ELSE (IF Contains(text, Head(words)) THEN 1 ELSE 0) + CountWords(Tail(words), text)

\* _score_report
score_report(report, request) ==
  CountWords(split(lower(request)), lower(report.name \o report.description))

RECURSIVE MaxLast(_, _, _, _)
\* a max that keeps the last of the largest keys
MaxLast(reports, request, i, best) ==
  IF i > Len(reports) THEN best
  ELSE MaxLast(reports, request, i + 1,
               IF score_report(reports[i], request) >= score_report(reports[best], request)
               THEN i ELSE best)

RECURSIVE MaxFrom(_, _, _, _)
\* Python's max(reports, key=...): a later element replaces the running
\* maximum only when its key is strictly greater
MaxFrom(reports, request, i, best) ==
  IF i > Len(reports) THEN best
  ELSE MaxFrom(reports, request, i + 1,
               IF score_report(reports[i], request) > score_report(reports[best], request)
               THEN i ELSE best)

\* _extract_params without the lower()
extract_params_cased(request) ==
  LET r == request
      keys == (IF Contains(r, TriggerDec) \/ Contains(r, Trigger2024) THEN {"p_Date"} ELSE {})
                \cup (IF Contains(r, TriggerQ4) THEN {"p_Quarter"} ELSE {})
  IN  [k \in keys |-> IF k = "p_Date" THEN DateValue ELSE QuarterValue]

\* _extract_params
extract_params(request) ==
  LET r == lower(request)
      keys == (IF Contains(r, TriggerDec) \/ Contains(r, Trigger2024) THEN {"p_Date"} ELSE {})
                \cup (IF Contains(r, TriggerQ4) THEN {"p_Quarter"} ELSE {})
  IN  [k \in keys |-> IF k = "p_Date" THEN DateValue ELSE QuarterValue]

NoReport ==
  [store_id |-> <<>>, name |-> <<>>, path |-> <<>>, description |-> <<>>,
   parameters |-> <<>>, last_modified |-> <<>>]

NoParams == [k \in {} |-> <<>>]

\* process_request with no test for an empty list: max() of it raises ValueError
process_request_unguarded(rows, request) ==
  LET found == search_reports(rows, request)
  IN  IF found.raised
      THEN [status |-> "JSONDecodeError", candidates |-> <<>>, index |-> 0,
            best |-> NoReport, params |-> NoParams]
      ELSE IF found.reports = <<>>
      THEN [status |-> "ValueError", candidates |-> <<>>, index |-> 0,
            best |-> NoReport, params |-> NoParams]
      ELSE LET i == MaxFrom(found.reports, request, 1, 1)
           IN  [status |-> "found", candidates |-> found.reports, index |-> i,
                best |-> found.reports[i], params |-> extract_params(request)]

\* process_request up to the call of generate_report: the search, the choice
\* of the best report and the parameters
process_request(rows, request) ==
  LET found == search_reports(rows, request)
  IN  IF found.raised
      THEN [status |-> "JSONDecodeError", candidates |-> <<>>, index |-> 0,
            best |-> NoReport, params |-> NoParams]
      ELSE IF found.reports = <<>>
      THEN [status |-> "not_found", candidates |-> <<>>, index |-> 0,
            best |-> NoReport, params |-> NoParams]
      ELSE LET i == MaxFrom(found.reports, request, 1, 1)
           IN  [status |-> "found", candidates |-> found.reports, index |-> i,
                best |-> found.reports[i], params |-> extract_params(request)]

---------------------------------------------------------------------------
(* The run of the script *)

\* pc: "start" before AIReporter(...), "build" between the two calls of
\*     __init__, "main" at the if of the main block (and at the head of the
\*     interactive loop), "exit" after a normal end, "aborted" when __init__
\*     raised, "crashed" when a request or input() raised
\* db: the rows of the reports table in rowid order
\* search: how the search call of this run's refresh ended
\* last: the latest call of process_request, the n-th of the run
\* outcomes: what each call of process_request of this run came to, in order
\* runs: the generation requests posted, in order
\* writes: the files generate_report opened for writing, in order
\* now, ticks: the wall clock, and the seconds it advanced
\* nreq: the lines read by the interactive loop

NoCall ==
  [n |-> 0, request |-> <<>>, status |-> "none", candidates |-> <<>>, index |-> 0,
   best |-> NoReport, params |-> NoParams, filepath |-> <<>>]

Init ==
  /\ pc = "start"
  /\ args \in ArgsPool
  /\ db \in {build_reports_cache(<<>>, r) : r \in EarlierResults}
  /\ search = [kind |-> "none", results |-> <<>>]
  /\ last = NoCall
  /\ outcomes = <<>>
  /\ runs = <<>>
  /\ writes = <<>>
  /\ now = StartTime
  /\ ticks = 0
  /\ nreq = 0

\* _authenticate_cognos: raise_for_status() raises on an error status
AuthenticateCognos ==
  /\ pc = "start"
  /\ \E ok \in BOOLEAN : pc' = IF ok THEN "build" ELSE "aborted"
  /\ UNCHANGED <<args, db, search, last, outcomes, runs, writes, now, ticks, nreq>>

\* _build_reports_cache: session.post raises when there is no answer,
\* resp.json() raises on a body that is not JSON, and .get('results', [])
\* is the empty list for a JSON body without 'results'; the status of the
\* answer is not looked at
BuildReportsCache ==
  /\ pc = "build"
  /\ \E resp \in SearchResponses :
       /\ search' = resp
       /\ IF resp.kind \in {"connection_error", "error_not_json"}
          THEN pc' = "aborted" /\ db' = db
          ELSE pc' = "main" /\ db' = build_reports_cache(db, resp.results)
  /\ UNCHANGED <<args, last, outcomes, runs, writes, now, ticks, nreq>>

\* the wall clock advances; only generate_report reads it
Tick ==
  /\ pc = "main"
  /\ ticks < MaxTicks
  /\ now' = NextSecond(now)
  /\ ticks' = ticks + 1
  /\ UNCHANGED <<pc, args, db, search, last, outcomes, runs, writes, nreq>>

\* agent.process_request(request) and the print of its result. generate_report
\* posts the run request and then ends in one of three ways: the post raises
\* or its answer has no output url (nothing is written), the download raises
\* after the file was opened for writing, or the bytes are written.
Process(request, after) ==
  \E r \in {process_request(db, request)} :
  \E filepath \in {report_filepath(r.best.store_id, DefaultFormat, now)} :
    LET call(status, path) ==
          [n |-> last.n + 1, request |-> request, status |-> status,
           candidates |-> r.candidates, index |-> r.index, best |-> r.best,
           params |-> r.params, filepath |-> path]
        outcome ==
          [request |-> request, status |-> r.status, best |-> r.best.store_id,
           params |-> r.params]
    IN  /\ db' = after_search(db, request)
        /\ outcomes' = Append(outcomes, outcome)
        /\ IF r.status # "found"
           THEN /\ last' = call(r.status, <<>>)
                /\ pc' = IF r.status = "not_found" THEN after ELSE "crashed"
                /\ UNCHANGED <<runs, writes>>
           ELSE \E gen \in {"ok", "run_failed", "download_failed"} :
                  /\ last' = call(IF gen = "ok" THEN "generated" ELSE gen,
                                  IF gen = "run_failed" THEN <<>> ELSE filepath)
                  /\ runs' = Append(runs, [store_id |-> r.best.store_id,
                                           params |-> r.params,
                                           fmt |-> DefaultFormat])
                  /\ writes' = IF gen = "run_failed" THEN writes
                               ELSE Append(writes, [path |-> filepath,
                                                    store_id |-> r.best.store_id,
                                                    complete |-> gen = "ok"])
                  /\ pc' = IF gen = "ok" THEN after ELSE "crashed"

\* the else branch of the main block: args.request or "daily sales"
OneShot ==
  /\ pc = "main"
  /\ ~args.interactive
  /\ Process(IF args.request.given /\ args.request.text # <<>>
             THEN args.request.text ELSE DefaultRequest, "exit")
  /\ UNCHANGED <<args, search, now, ticks, nreq>>

\* one turn of the interactive loop on a line that is not the sentinel
InteractiveRequest ==
  /\ pc = "main"
  /\ args.interactive
  /\ nreq < MaxRequests
  /\ \E line \in RequestPool :
       /\ lower(line) # QuitWord
       /\ Process(line, "main")
  /\ nreq' = nreq + 1
  /\ UNCHANGED <<args, search, now, ticks>>

\* the interactive loop reads the sentinel, in any case, and breaks
InteractiveQuit ==
  /\ pc = "main"
  /\ args.interactive
  /\ \E line \in RequestPool : lower(line) = QuitWord
  /\ pc' = "exit"
  /\ UNCHANGED <<args, db, search, last, outcomes, runs, writes, now, ticks, nreq>>

\* input() raises EOFError at the end of the input
InteractiveEof ==
  /\ pc = "main"
  /\ args.interactive
  /\ pc' = "crashed"
  /\ UNCHANGED <<args, db, search, last, outcomes, runs, writes, now, ticks, nreq>>

Next ==
  \/ AuthenticateCognos
  \/ BuildReportsCache
  \/ Tick
  \/ OneShot
  \/ InteractiveRequest
  \/ InteractiveQuit
  \/ InteractiveEof

Spec == Init /\ [][Next]_vars

---------------------------------------------------------------------------
(* The claims *)

\* the refresh of this run returned
Refreshed == pc \in {"main", "exit", "crashed"}

\* generate_report was called by the latest call of process_request
Generating == last.status \in {"generated", "run_failed", "download_failed"}

Ids(rows) == {rows[i].store_id : i \in 1..Len(rows)}

\* the last item of a result list that carries identifier id
LastItemWith(results, id) ==
  results[CHOOSE k \in 1..Len(results) :
            /\ results[k].id = id
            /\ \A m \in (k + 1)..Len(results) : results[m].id # id]

\* C1: after a refresh whose search returned a result list, the identifiers in
\* the cache are exactly the identifiers of that list, one row per identifier,
\* each row carrying the fields of the last listed item with its identifier.
C1_RefreshIsFullReplace ==
  (Refreshed /\ search.kind = "results") =>
    /\ Ids(db) = {search.results[k].id : k \in 1..Len(search.results)}
    /\ \A i, j \in 1..Len(db) : db[i].store_id = db[j].store_id => i = j
    /\ \A i \in 1..Len(db) :
         db[i].store_id \in {search.results[k].id : k \in 1..Len(search.results)}
           => db[i] = RowOf(LastItemWith(search.results, db[i].store_id))

\* the cache of the scenario: r1 "Daily Sales" / "sales by region" and
\* r2 "Monthly Summary" / "summary totals", and nothing else
ScenarioCache ==
  /\ Len(db) = 2
  /\ \E i, j \in 1..2 :
       /\ db[i].store_id = <<"r", "1">>
       /\ db[i].name = <<"D", "a", "i", "l", "y", " ", "S", "a", "l", "e", "s">>
       /\ db[i].description = <<"s", "a", "l", "e", "s", " ", "b", "y", " ", "r", "e", "g", "i", "o", "n">>
       /\ db[j].store_id = <<"r", "2">>
       /\ db[j].name = <<"M", "o", "n", "t", "h", "l", "y", " ", "S", "u", "m", "m", "a", "r", "y">>
       /\ db[j].description = <<"s", "u", "m", "m", "a", "r", "y", " ", "t", "o", "t", "a", "l", "s">>

\* C2: on the scenario cache the request "daily sales report" is answered by
\* a generation request for r1, never by "no reports found".
C2_DailySalesReportSelectsR1 ==
  ( /\ ScenarioCache
    /\ last.status # "none"
    /\ last.request = <<"d", "a", "i", "l", "y", " ", "s", "a", "l", "e", "s", " ", "r", "e", "p", "o", "r", "t">> )
    => /\ Generating
       /\ last.best.store_id = <<"r", "1">>
       /\ runs # <<>> /\ runs[Len(runs)].store_id = <<"r", "1">>

\* C3: when the search returned candidates, the chosen report is one of them,
\* no candidate scores higher, and every candidate before it scores lower.
C3_BestIsFirstMaximum ==
  last.candidates # <<>> =>
    /\ last.index \in 1..Len(last.candidates)
    /\ last.best = last.candidates[last.index]
    /\ \A j \in 1..Len(last.candidates) :
         score_report(last.candidates[j], last.request)
           <= score_report(last.best, last.request)
    /\ \A j \in 1..(last.index - 1) :
         score_report(last.candidates[j], last.request)
           < score_report(last.best, last.request)

\* witness of C3: the second call of a run chose the first of two candidates that tie at a
\* score above zero
C3_Witness ==
  /\ Len(outcomes) = 2
  /\ last.index = 1
  /\ Len(last.candidates) >= 2
  /\ score_report(last.candidates[2], last.request)
       = score_report(last.candidates[1], last.request)
  /\ score_report(last.best, last.request) > 0

\* a row holds q as a literal substring of its name, description or path,
\* letter case aside
LiteralMatch(row, q) ==
  \/ Contains(lower(row.name), lower(q))
  \/ Contains(lower(row.description), lower(q))
  \/ Contains(lower(row.path), lower(q))

\* C4: a search returns, and returns exactly the cached reports that hold the
\* query as a literal substring, in the order of the table.
C4_FindIsLiteralSubstring ==
  last.status # "none" =>
    /\ last.status # "JSONDecodeError"
    /\ (last.status # "not_found" \/ last.candidates = <<>>)
    /\ LET hits == SelectSeq(db, LAMBDA r : LiteralMatch(r, last.request))
       IN  [i \in 1..Len(last.candidates) |-> last.candidates[i].store_id]
             = [i \in 1..Len(hits) |-> hits[i].store_id]

\* C5: with an empty cache a call of process_request ends in "no reports
\* found", posts no generation request, writes no file, and leaves the
\* interactive loop at its head (a one-shot run at its normal end).
C5_EmptyCacheNotFound ==
  [][ (db = <<>> /\ last'.n # last.n) =>
        /\ last'.status = "not_found"
        /\ runs' = runs
        /\ writes' = writes
        /\ pc' = IF args.interactive THEN "main" ELSE "exit" ]_vars

\* witness of C5: the interactive loop took a second request after a first one on an empty cache
C5_Witness ==
  /\ db = <<>>
  /\ args.interactive
  /\ last.n = 2
  /\ last.status = "not_found"
  /\ pc = "main"

\* C6: when the search call of the refresh fails, startup is aborted.
C6_SearchFailureAbortsStartup ==
  search.kind \in {"error_json", "error_not_json", "connection_error"}
    => pc = "aborted"

HasQ4(request) == Contains(lower(request), <<"q", "4">>)

HasDec(request) == Contains(lower(request), <<"d", "e", "c">>)

Has2024(request) == Contains(lower(request), <<"2", "0", "2", "4">>)

IsQuarterQ4(params) ==
  "p_Quarter" \in DOMAIN params /\ params["p_Quarter"] = <<"Q", "4">>

IsDateDecember(params) ==
  "p_Date" \in DOMAIN params
    /\ params["p_Date"] = <<"2", "0", "2", "4", "-", "1", "2">>

\* C7 as stated: the parameters of a request hold quarter Q4 when the text
\* contains "q4", the December date when it contains "dec", and nothing when
\* it contains neither "q4" nor "dec".
C7_ParamsFromQ4AndDec ==
  \A i \in 1..Len(outcomes) :
    outcomes[i].status = "found" =>
      /\ HasQ4(outcomes[i].request) => IsQuarterQ4(outcomes[i].params)
      /\ HasDec(outcomes[i].request) => IsDateDecember(outcomes[i].params)
      /\ (~HasQ4(outcomes[i].request) /\ ~HasDec(outcomes[i].request))
           => outcomes[i].params = NoParams

\* C7 as amended: the parameters hold quarter Q4 exactly when the text contains
\* "q4", the December date exactly when it contains "dec" or "2024", and nothing
\* else; so they are empty when the text contains none of the three.
C7_ParamsFromThreeTriggers ==
  \A i \in 1..Len(outcomes) :
    outcomes[i].status = "found" =>
      /\ DOMAIN outcomes[i].params \subseteq {"p_Quarter", "p_Date"}
      /\ HasQ4(outcomes[i].request) => IsQuarterQ4(outcomes[i].params)
      /\ ~HasQ4(outcomes[i].request) => "p_Quarter" \notin DOMAIN outcomes[i].params
      /\ (HasDec(outcomes[i].request) \/ Has2024(outcomes[i].request))
           => IsDateDecember(outcomes[i].params)
      /\ (~HasDec(outcomes[i].request) /\ ~Has2024(outcomes[i].request))
           => "p_Date" \notin DOMAIN outcomes[i].params

\* witness of C7: one run extracted both parameters from one request and none from another
C7_Witness ==
  /\ \E i \in 1..Len(outcomes) :
       /\ outcomes[i].status = "found"
       /\ HasQ4(outcomes[i].request) /\ HasDec(outcomes[i].request)
       /\ IsQuarterQ4(outcomes[i].params) /\ IsDateDecember(outcomes[i].params)
  /\ \E i \in 1..Len(outcomes) :
       /\ outcomes[i].status = "found"
       /\ outcomes[i].params = NoParams

\* C8: two downloads of one run that both completed wrote to different paths.
C8_DistinctPaths ==
  \A i, j \in 1..Len(writes) :
    (i < j /\ writes[i].complete /\ writes[j].complete)
      => writes[i].path # writes[j].path

AllDigits(s) == \A i \in 1..Len(s) : IsDigit(s[i])

LongId == <<"a", "b", "c", "d", "e", "f", "1", "2", "3", "4", "5", "6", "7", "8", "9", "0">>

\* the file name of a path under /tmp/
FileName(path) == SubSeq(path, 6, Len(path))

\* C10 as stated: the file name for identifier "abcdef1234567890" and format
\* "pdf" is "report_abcdef12_", fourteen digits in a row, ".pdf".
C10_FilenameFourteenDigits ==
  \A i \in 1..Len(writes) :
    writes[i].store_id = LongId =>
      LET name == FileName(writes[i].path)
      IN  /\ Len(name) = 34
          /\ SubSeq(name, 1, 16)
               = <<"r", "e", "p", "o", "r", "t", "_", "a", "b", "c", "d", "e", "f", "1", "2", "_">>
          /\ AllDigits(SubSeq(name, 17, 30))
          /\ SubSeq(name, 31, 34) = <<".", "p", "d", "f">>

\* C10 as amended: the file name is "report_abcdef12_", the eight digits of the
\* date, an underscore, the six digits of the time, ".pdf".
C10_FilenameDateUnderscoreTime ==
  \A i \in 1..Len(writes) :
    writes[i].store_id = LongId =>
      LET name == FileName(writes[i].path)
      IN  /\ Len(name) = 35
          /\ SubSeq(writes[i].path, 1, 5) = <<"/", "t", "m", "p", "/">>
          /\ SubSeq(name, 1, 16)
               = <<"r", "e", "p", "o", "r", "t", "_", "a", "b", "c", "d", "e", "f", "1", "2", "_">>
          /\ AllDigits(SubSeq(name, 17, 24))
          /\ name[25] = "_"
          /\ AllDigits(SubSeq(name, 26, 31))
          /\ SubSeq(name, 32, 35) = <<".", "p", "d", "f">>

\* witness of C10: a download for "abcdef1234567890" completed after the clock moved on
C10_Witness ==
  /\ ticks > 0
  /\ \E i \in 1..Len(writes) : writes[i].store_id = LongId /\ writes[i].complete

====
